---- MODULE Spec2Model ----
(***************************************************************************)
(* Model of the analytical core of src/Crit-study.py: the bout detector    *)
(* (analyze_bouts), the W' balance tracker (calculate_w_prime_balance),    *)
(* the depletion detector and zone binner (calculate_depletions_and_zones) *)
(* and the combination of per-file results (module level, lines 343-439).  *)
(*                                                                         *)
(* Numbers.  Powers, cp and w_prime are integers (FIT power records are    *)
(* whole watts).  The bout magnitude (avg_power / duration / cp) * 100 is  *)
(* kept as the exact fraction num/den and compared by cross               *)
(* multiplication.  The W' balance is a float in the code; here it is a    *)
(* fixed-point number counted in 1/Unit joule, and math.exp is computed in *)
(* fixed point with ExpScale steps per unit.                               *)
(***************************************************************************)
EXTENDS Integers, Sequences, FiniteSets, TLC

(***************************************************************************)
(* Bounds of the model                                                     *)
(***************************************************************************)
MaxBoutLen == 8     \* longest power series handed to analyze_bouts alone
MaxLen == 5         \* longest power series run through the whole pipeline
MaxFiles == 2       \* most files in one upload
Unit == 100         \* fixed-point steps per joule of W' balance
ExpScale == 1000    \* fixed-point steps per unit of math.exp's result

(***************************************************************************)
(* Program constants                                                       *)
(***************************************************************************)
threshold_factor == 100     \* 1.00, in percent
min_bout_duration == 3
gap_tolerance == 3
None == -1                  \* start_time before a bout is open

Min(a, b) == IF a < b THEN a ELSE b
Max(a, b) == IF a > b THEN a ELSE b

VARIABLES
    pc,              \* where the script is
    raised,          \* the exception that ended the run, or "none"
    uploaded_files,  \* the power series of the uploaded files
    f,               \* position of the loop over uploaded_files (1-based)
    time_values,     \* data_df['time']
    power_values,    \* data_df['power']
    cp,
    i,               \* position of the running loop in its series (1-based)
    duration, avg_power, below_counter, start_time, bouts,
    w_prime, A, B,   \* W' in joules and the recovery parameters tau_A, tau_B
    w_balance,       \* in 1/Unit joule
    w_bal_list,      \* the balance series, in 1/Unit joule
    selected_range,  \* the slider's (start_time, end_time), in half seconds
    w_bal_series_filtered, time_series_filtered,
    depletion_count, depletion_times, below_threshold,
    zone_data,
    all_files_data,  \* the results of the files analysed so far
    combined_zones   \* the combined zone table, once it is computed

boutVars == <<duration, avg_power, below_counter, start_time, bouts>>
inVars == <<time_values, power_values, cp>>
parVars == <<w_prime, A, B>>
balVars == <<w_balance, w_bal_list>>
rangeVars == <<selected_range, w_bal_series_filtered, time_series_filtered>>
deplVars == <<depletion_count, depletion_times, below_threshold>>
fileVars == <<uploaded_files, f>>
vars == <<pc, raised, fileVars, inVars, i, boutVars, parVars, balVars, rangeVars,
          deplVars, zone_data, all_files_data, combined_zones>>
aggVars == <<all_files_data, combined_zones>>

(***************************************************************************)
(* analyze_bouts                                                           *)
(***************************************************************************)

\* Variant: the threshold comparison is not strict
AboveOrEqual(p, c) == p * 100 >= c * threshold_factor

\* p > threshold_power, with threshold_power = cp * threshold_factor
Above(p, c) == p * 100 > c * threshold_factor

\* Variant: the tolerance is counted one sample short
WithinToleranceShort(b) == b < gap_tolerance

\* below_counter <= gap_tolerance
WithinTolerance(b) == b <= gap_tolerance

\* Variant: the power sum is not divided by the duration
MagnitudeOfSum(sum, d, c) == [num |-> sum * 100, den |-> c]

\* (avg_power / duration / cp) * 100 as an exact fraction
Magnitude(sum, d, c) == [num |-> sum * 100, den |-> d * c]

\* magnitude >= k, for a magnitude m whose denominator is not 0
MagnitudeGE(m, k) ==
    IF m.den > 0 THEN m.num >= k * m.den ELSE m.num <= k * m.den

\* Variant: a bout of exactly min_bout_duration samples is too short
LongerThanMin(d) == d > min_bout_duration

\* duration >= min_bout_duration
LongEnough(d) == d >= min_bout_duration

\* Variant: the magnitude is not checked
StrongEnoughUnchecked(m) == TRUE

\* magnitude >= threshold_factor * 100
StrongEnough(m) == MagnitudeGE(m, threshold_factor)

\* The close of a bout: the record is appended when both checks pass.  The
\* division by cp raises ZeroDivisionError when cp = 0.
CloseBout(s, c) ==
    IF LongEnough(s.duration)
    THEN IF c = 0
         THEN [s EXCEPT !.raised = "ZeroDivisionError"]
         ELSE LET magnitude == Magnitude(s.avg_power, s.duration, c)
              IN IF StrongEnough(magnitude)
                 THEN [s EXCEPT !.bouts = Append(@,
                          [start_time |-> s.start_time,
                           duration   |-> s.duration,
                           magnitude  |-> magnitude])]
                 ELSE s
    ELSE s

\* Variant: the close resets the below-run counter and leaves the bout open
ResetCounterOnly(s) == [s EXCEPT !.below_counter = 0]

\* Variant: the close leaves the below-run counter as it is
ResetBoutKeepCounter(s) ==
    [s EXCEPT !.duration = 0, !.avg_power = 0, !.start_time = None]

\* duration, avg_power, below_counter, start_time = 0, 0, 0, None
ResetBout(s) ==
    [s EXCEPT !.duration = 0, !.avg_power = 0, !.below_counter = 0,
              !.start_time = None]

\* Variant: the scan starts from the values the last scan left
BoutInitCarried ==
    [duration |-> duration, avg_power |-> avg_power,
     below_counter |-> below_counter, start_time |-> start_time,
     bouts |-> <<>>, raised |-> "none"]

\* bouts = []; duration, avg_power, below_counter, start_time = 0, 0, 0, None
BoutInit ==
    [duration |-> 0, avg_power |-> 0, below_counter |-> 0,
     start_time |-> None, bouts |-> <<>>, raised |-> "none"]

\* One pass of the loop body, for the sample (t, p)
BoutSample(s, t, p, c) ==
    IF Above(p, c)
    THEN [s EXCEPT !.start_time = IF s.duration = 0 THEN t ELSE @,
                   !.duration = @ + 1,
                   !.avg_power = @ + p,
                   !.below_counter = 0]
    ELSE IF s.duration > 0
         THEN IF WithinTolerance(s.below_counter + 1)
              THEN [s EXCEPT !.below_counter = @ + 1,
                             !.duration = @ + 1,
                             !.avg_power = @ + p]
              ELSE LET closed == CloseBout([s EXCEPT !.below_counter = @ + 1], c)
                   IN IF closed.raised = "none" THEN ResetBout(closed) ELSE closed
         ELSE s

BoutState ==
    [duration |-> duration, avg_power |-> avg_power,
     below_counter |-> below_counter, start_time |-> start_time,
     bouts |-> bouts, raised |-> raised]

SetBoutState(s) ==
    /\ duration' = s.duration
    /\ avg_power' = s.avg_power
    /\ below_counter' = s.below_counter
    /\ start_time' = s.start_time
    /\ bouts' = s.bouts
    /\ raised' = s.raised

\* elapsed seconds of the resampled 1-second grid
TimeAxis(n) == [k \in 1..n |-> k - 1]

SeqsUpTo(S, n) == UNION {[1..k -> S] : k \in 0..n}

Repeat(x, n) == [k \in 1..n |-> x]

\* The scenario of the specification: 10 s at 300 W, then 60 s at 200 W, CP 250
ScenarioPower == Repeat(300, 10) \o Repeat(200, 60)
ScenarioCP == 250

\* bouts_df = analyze_bouts(data_df['time'], data_df['power'], cp)
EnterAnalyzeBouts(power) ==
    /\ power_values' = power
    /\ time_values' = TimeAxis(Len(power))
    /\ i' = 1
    /\ SetBoutState(BoutInit)
    /\ pc' = "analyze_bouts"
    /\ UNCHANGED <<fileVars, cp, parVars, balVars, rangeVars, deplVars,
                   zone_data, aggVars>>

\* for file in uploaded_files: data_df = parse_fit_file(file); an empty frame
\* is reported and skipped, any other is handed to analyze_bouts
LoadFile ==
    /\ pc = "start"
    /\ f <= Len(uploaded_files)
    /\ IF uploaded_files[f] = <<>>
       THEN /\ f' = f + 1
            /\ UNCHANGED <<pc, raised, uploaded_files, inVars, i, boutVars,
                           parVars, balVars, rangeVars, deplVars, zone_data,
                           aggVars>>
       ELSE EnterAnalyzeBouts(uploaded_files[f])

\* for t, p in zip(time_values, power_values): one sample
BoutStep ==
    /\ pc = "analyze_bouts"
    /\ i <= Len(power_values)
    /\ LET s == BoutSample(BoutState, time_values[i], power_values[i], cp)
       IN /\ SetBoutState(s)
          /\ pc' = IF s.raised = "none" THEN "analyze_bouts" ELSE "failed"
    /\ i' = i + 1
    /\ UNCHANGED <<fileVars, inVars, parVars, balVars, rangeVars, deplVars,
                   zone_data, aggVars>>

\* after the loop: the bout still open is closed, and the list is returned
BoutEnd ==
    /\ pc = "analyze_bouts"
    /\ i > Len(power_values)
    /\ LET s == CloseBout(BoutState, cp)
       IN /\ SetBoutState(s)
          /\ pc' = IF s.raised = "none" THEN "bouts_returned" ELSE "failed"
    /\ UNCHANGED <<fileVars, inVars, i, parVars, balVars, rangeVars, deplVars,
                   zone_data, aggVars>>

(***************************************************************************)
(* calculate_w_prime_balance                                               *)
(***************************************************************************)

RECURSIVE IntPow(_, _)
IntPow(b, e) == IF e = 0 THEN 1 ELSE b * IntPow(b, e - 1)

\* Variant: the sign of A is lost
TauMagnitude(a, delta_p, b) ==
    IF b >= 0
    THEN [num |-> (IF a < 0 THEN -a ELSE a) * IntPow(delta_p, b), den |-> 1]
    ELSE [num |-> IF a < 0 THEN -a ELSE a, den |-> IntPow(delta_p, -b)]

\* tau = A * (delta_p ** B) as a fraction, for a whole exponent B
Tau(a, delta_p, b) ==
    IF b >= 0
    THEN [num |-> a * IntPow(delta_p, b), den |-> 1]
    ELSE [num |-> a, den |-> IntPow(delta_p, -b)]

\* tau > 0
TauPositive(tau) == tau.num > 0

\* exp(-a/d) for 0 <= a <= d, in 1/ExpScale: the series of exp to the 6th
\* power, evaluated from the innermost term outwards
ExpNegFrac(a, d) ==
    LET h6 == ExpScale - (ExpScale * a) \div (6 * d)
        h5 == ExpScale - (h6 * a) \div (5 * d)
        h4 == ExpScale - (h5 * a) \div (4 * d)
        h3 == ExpScale - (h4 * a) \div (3 * d)
        h2 == ExpScale - (h3 * a) \div (2 * d)
    IN ExpScale - (h2 * a) \div d

RECURSIVE ExpNegWhole(_)
ExpNegWhole(k) ==
    IF k = 0 THEN ExpScale
    ELSE (ExpNegWhole(k - 1) * ExpNegFrac(1, 1)) \div ExpScale

\* math.exp(-n/d) for n >= 0 and d > 0, in 1/ExpScale
ExpNeg(n, d) == (ExpNegWhole(n \div d) * ExpNegFrac(n % d, d)) \div ExpScale

\* Variant: the expended W' is taken with the wrong sign
RecoveryReversed(w_expended, tau) ==
    ((0 - w_expended) * (ExpScale - ExpNeg(tau.den, tau.num))) \div ExpScale

\* w_expended * (1 - math.exp(-1 / tau)), for tau > 0
Recovery(w_expended, tau) ==
    (w_expended * (ExpScale - ExpNeg(tau.den, tau.num))) \div ExpScale

\* Variant: the balance is not kept from falling below 0
ClampAbove(wp, b) == Min(wp, b)

\* min(w_prime, max(0, w_balance))
Clamp(wp, b) == Min(wp, Max(0, b))

\* One pass of the loop body for the power p: the balance that is appended.
\* b and the result are in 1/Unit joule; c and wp are cp and w_prime.
BalanceSample(b, p, c, wp, a, e) ==
    LET moved ==
          IF p > c
          THEN b - (p - c) * Unit
          ELSE LET w_expended == wp * Unit - b
                   delta_p == c - p
               IN IF delta_p > 0
                  THEN LET tau == Tau(a, delta_p, e)
                       IN IF TauPositive(tau)
                          THEN b + Recovery(w_expended, tau)
                          ELSE b
                  ELSE b
    IN Clamp(wp * Unit, moved)

\* w_balance = w_prime; w_bal_list = []
BalanceCall ==
    /\ pc = "bouts_returned"
    /\ w_balance' = w_prime * Unit
    /\ w_bal_list' = <<>>
    /\ i' = 1
    /\ pc' = "calculate_w_prime_balance"
    /\ UNCHANGED <<raised, fileVars, inVars, boutVars, parVars, rangeVars,
                   deplVars, zone_data, aggVars>>

\* for p in power_series: one sample
BalanceStep ==
    /\ pc = "calculate_w_prime_balance"
    /\ i <= Len(power_values)
    /\ w_balance' = BalanceSample(w_balance, power_values[i], cp, w_prime, A, B)
    /\ w_bal_list' = Append(w_bal_list, w_balance')
    /\ i' = i + 1
    /\ UNCHANGED <<pc, raised, fileVars, inVars, boutVars, parVars, rangeVars, deplVars,
                   zone_data, aggVars>>

\* return pd.Series(w_bal_list)
BalanceReturn ==
    /\ pc = "calculate_w_prime_balance"
    /\ i > Len(power_values)
    /\ pc' = "balance_returned"
    /\ UNCHANGED <<raised, fileVars, inVars, i, boutVars, parVars, balVars, rangeVars,
                   deplVars, zone_data, aggVars>>

(***************************************************************************)
(* The time range of the zone analysis (module level, lines 362-382)       *)
(***************************************************************************)

\* time_mask = (data_df['time'] >= start_time) & (data_df['time'] <= end_time),
\* with the range r in half seconds
TimeMask(times, r, k) == 2 * times[k] >= r[1] /\ 2 * times[k] <= r[2]

\* series[time_mask]: the values of seq at the positions the mask keeps
Keep(seq, times, r) ==
    LET idx == {k \in 1..Len(seq) : TimeMask(times, r, k)}
        Rank(k) == Cardinality({j \in idx : j <= k})
    IN [n \in 1..Cardinality(idx) |-> seq[CHOOSE k \in idx : Rank(k) = n]]

\* The slider positions the model tries: every whole second of the series and
\* the half second after its first sample.  A series longer than MaxLen keeps
\* the slider's default, the full span (min_time, max_time).
SliderRanges(times) ==
    LET n == Len(times)
        full == <<2 * times[1], 2 * times[n]>>
        pos == {2 * times[k] : k \in 1..n} \cup (IF n >= 2 THEN {1} ELSE {})
    IN IF n > MaxLen THEN {full}
       ELSE {r \in pos \X pos : r[1] <= r[2]}

\* selected_range = st.slider(...); the filtered balance and time series
SelectRange ==
    /\ pc = "balance_returned"
    /\ \E r \in SliderRanges(time_values) :
          /\ selected_range' = r
          /\ w_bal_series_filtered' =
                 Keep(w_bal_list, time_values, r)
          /\ time_series_filtered' =
                 Keep(time_values, time_values, r)
    /\ depletion_count' = 0
    /\ depletion_times' = <<>>
    /\ below_threshold' = FALSE
    /\ i' = 1
    /\ pc' = "calculate_depletions_and_zones"
    /\ UNCHANGED <<raised, fileVars, inVars, boutVars, parVars, balVars, zone_data, aggVars>>

(***************************************************************************)
(* calculate_depletions_and_zones                                          *)
(***************************************************************************)
depletion_fraction == 15    \* 0.15, in percent

\* val < depletion_threshold, with depletion_threshold = 0.15 * w_prime
BelowDepletion(val, wp) == val * 100 < depletion_fraction * wp * Unit

\* val >= depletion_threshold
AtOrAboveDepletion(val, wp) == val * 100 >= depletion_fraction * wp * Unit

\* Variant: every sample below the threshold is counted, not only the first
DepletionSampleLevel(s, t, val, wp) ==
    IF BelowDepletion(val, wp)
    THEN [depletion_count |-> s.depletion_count + 1,
          depletion_times |-> Append(s.depletion_times, t),
          below_threshold |-> TRUE]
    ELSE [s EXCEPT !.below_threshold = FALSE]

\* One pass of the depletion loop, for the balance val at time t
DepletionSample(s, t, val, wp) ==
    IF BelowDepletion(val, wp) /\ ~s.below_threshold
    THEN [depletion_count |-> s.depletion_count + 1,
          depletion_times |-> Append(s.depletion_times, t),
          below_threshold |-> TRUE]
    ELSE IF AtOrAboveDepletion(val, wp)
         THEN [s EXCEPT !.below_threshold = FALSE]
         ELSE s

DepletionInit ==
    [depletion_count |-> 0, depletion_times |-> <<>>, below_threshold |-> FALSE]

\* Variant: the last bin ends at 100
binsTo100 == <<-1, 10, 15, 25, 50, 70, 100>>

bins == <<-1, 10, 15, 25, 50, 70, 101>>
labels == <<"0-10%", "10-15%", "15-25%", "25-50%", "50-70%", "70-100%">>
Zones == 1..Len(labels)

\* Variant: the bins are closed on the right (right=True)
InBinRight(val, wp, k) ==
    IF wp > 0
    THEN bins[k] * wp * Unit < val * 100 /\ val * 100 <= bins[k + 1] * wp * Unit
    ELSE IF wp < 0
         THEN bins[k] * wp * Unit > val * 100 /\ val * 100 >= bins[k + 1] * wp * Unit
         ELSE FALSE

\* bins[k] <= w_bal_percent < bins[k+1] (right=False), with
\* w_bal_percent = (val / w_prime) * 100.  A division by w_prime = 0 gives
\* NaN or an infinity, which pd.cut puts in no bin.
InBin(val, wp, k) ==
    IF wp > 0
    THEN bins[k] * wp * Unit <= val * 100 /\ val * 100 < bins[k + 1] * wp * Unit
    ELSE IF wp < 0
         THEN bins[k] * wp * Unit >= val * 100 /\ val * 100 > bins[k + 1] * wp * Unit
         ELSE FALSE

\* zone_counts: zeros for an empty series, else pd.cut(...).value_counts()
ZoneCounts(series, wp) ==
    IF series = <<>>
    THEN [k \in Zones |-> 0]
    ELSE [k \in Zones |->
            Cardinality({j \in 1..Len(series) : InBin(series[j], wp, k)})]

\* n/d rounded to the nearest integer, ties to the even one (d > 0)
RoundHalfEven(n, d) ==
    LET q == n \div d
        r == n % d
    IN IF 2 * r < d THEN q
       ELSE IF 2 * r > d THEN q + 1
       ELSE IF q % 2 = 0 THEN q ELSE q + 1

\* (count / total * 100).round(2), in hundredths of a percent
PercentOf(count, total) == RoundHalfEven(count * 10000, total)

\* Variant: the percentage is not guarded against total_duration = 0, and the
\* division 0 / 0 leaves NaN (written -1) in every row
ZoneDataUnguarded(counts, total_duration) ==
    [seconds |-> counts,
     percent |-> [k \in Zones |->
                    IF total_duration > 0
                    THEN PercentOf(counts[k], total_duration) ELSE -1]]

\* zone_data: 'Time (s)' and 'Time (%)' (0 when total_duration is 0)
ZoneData(counts, total_duration) ==
    [seconds |-> counts,
     percent |-> [k \in Zones |->
                    IF total_duration > 0
                    THEN PercentOf(counts[k], total_duration) ELSE 0]]

DepletionState ==
    [depletion_count |-> depletion_count, depletion_times |-> depletion_times,
     below_threshold |-> below_threshold]

\* for i, val in enumerate(w_bal_series): one sample
DepletionStep ==
    /\ pc = "calculate_depletions_and_zones"
    /\ i <= Len(w_bal_series_filtered)
    /\ LET s == DepletionSample(DepletionState, time_series_filtered[i],
                                w_bal_series_filtered[i], w_prime)
       IN /\ depletion_count' = s.depletion_count
          /\ depletion_times' = s.depletion_times
          /\ below_threshold' = s.below_threshold
    /\ i' = i + 1
    /\ UNCHANGED <<pc, raised, fileVars, inVars, boutVars, parVars, balVars, rangeVars,
                   zone_data, aggVars>>

\* after the loop: the zone table is built and the function returns
ZoneBin ==
    /\ pc = "calculate_depletions_and_zones"
    /\ i > Len(w_bal_series_filtered)
    /\ zone_data' = ZoneData(ZoneCounts(w_bal_series_filtered, w_prime),
                             Len(time_series_filtered))
    /\ pc' = "done"
    /\ UNCHANGED <<raised, fileVars, inVars, i, boutVars, parVars, balVars, rangeVars,
                   deplVars, aggVars>>

(***************************************************************************)
(* The results of all files and their combination (lines 397-439)          *)
(***************************************************************************)
NoTable == [seconds |-> <<>>, percent |-> <<>>]

\* all_files_data.append({...}): the file's results, with the duration of the
\* selected range
StoreFile ==
    /\ pc = "done"
    /\ all_files_data' = Append(all_files_data,
          [bouts_df |-> bouts,
           duration |-> Len(time_series_filtered),
           depletion_count |-> depletion_count,
           zone_data |-> zone_data])
    /\ f' = f + 1
    /\ pc' = "start"
    /\ UNCHANGED <<raised, uploaded_files, inVars, i, boutVars, parVars,
                   balVars, rangeVars, deplVars, zone_data, combined_zones>>

\* sum(f['zone_data']['Time (s)'] for f in all_files_data)
RECURSIVE TotalZoneSeconds(_)
TotalZoneSeconds(files) ==
    IF files = <<>> THEN [k \in Zones |-> 0]
    ELSE LET rest == TotalZoneSeconds(Tail(files))
         IN [k \in Zones |-> Head(files).zone_data.seconds[k] + rest[k]]

\* sum(f['duration'] for f in all_files_data)
RECURSIVE TotalDuration(_)
TotalDuration(files) ==
    IF files = <<>> THEN 0
    ELSE Head(files).duration + TotalDuration(Tail(files))

\* Variant: the mean of the files' percentages
RECURSIVE TotalPercent(_, _)
TotalPercent(files, k) ==
    IF files = <<>> THEN 0
    ELSE Head(files).zone_data.percent[k] + TotalPercent(Tail(files), k)

CombinedPercentMean(files) ==
    [k \in Zones |-> RoundHalfEven(TotalPercent(files, k), Len(files))]

\* 'Total Time (%)': (total_zone_seconds / total_duration_all * 100).round(2)
CombinedPercent(files) ==
    [k \in Zones |->
        PercentOf(TotalZoneSeconds(files)[k], TotalDuration(files))]

\* combined_zones_df
CombinedZones(files) ==
    [seconds |-> TotalZoneSeconds(files), percent |-> CombinedPercent(files)]

\* if all_files_data: ... if total_duration_all > 0: combined_zones_df = ...
Combine ==
    /\ pc = "start"
    /\ f > Len(uploaded_files)
    /\ all_files_data # <<>>
    /\ combined_zones' = IF TotalDuration(all_files_data) > 0
                         THEN CombinedZones(all_files_data) ELSE NoTable
    /\ pc' = "combined"
    /\ UNCHANGED <<raised, fileVars, inVars, i, boutVars, parVars, balVars,
                   rangeVars, deplVars, zone_data, all_files_data>>

(***************************************************************************)
(* Initial states and specifications                                       *)
(***************************************************************************)

\* Nothing analysed yet
NothingAnalysed ==
    /\ pc = "start"
    /\ raised = "none"
    /\ f = 1
    /\ time_values = <<>>
    /\ power_values = <<>>
    /\ i = 1
    /\ duration = 0
    /\ avg_power = 0
    /\ below_counter = 0
    /\ start_time = None
    /\ bouts = <<>>
    /\ w_balance = 0
    /\ w_bal_list = <<>>
    /\ selected_range = <<0, 0>>
    /\ w_bal_series_filtered = <<>>
    /\ time_series_filtered = <<>>
    /\ depletion_count = 0
    /\ depletion_times = <<>>
    /\ below_threshold = FALSE
    /\ zone_data = ZoneData([k \in Zones |-> 0], 0)
    /\ all_files_data = <<>>
    /\ combined_zones = NoTable

\* The sidebar's cp, w_prime, A and B
Sidebar(c, wp, a, e) == cp = c /\ w_prime = wp /\ A = a /\ B = e

ScenarioSidebar == Sidebar(ScenarioCP, 20000, 350, -1)

\* One uploaded file: every series of up to MaxLen samples under a handful of
\* parameters, and the scenario
Powers == {5, 10, 15, 29}
Recoveries == {<<2, -1>>, <<3, 0>>, <<0, -1>>, <<-1, -1>>}

\* Series whose balances, with cp 10 and w_prime 20, fall on and next to the
\* edges of the zones
EdgePowers ==
    {<<10, 16, 14, 15, 12, 11, 12>>, <<16, 14, 15, 12, 11>>,
     <<17, 14, 15, 12, 11>>, <<15, 14, 15, 12, 11>>, <<11, 29>>}
Init ==
    /\ NothingAnalysed
    /\ \/ /\ \/ \E x \in Recoveries : Sidebar(10, 20, x[1], x[2])
             \/ Sidebar(10, 0, 2, -1)
             \/ Sidebar(0, 20, 2, -1)
          /\ \E s \in SeqsUpTo(Powers, MaxLen) : uploaded_files = <<s>>
       \/ /\ Sidebar(10, 20, 2, -1)
          /\ \E s \in EdgePowers : uploaded_files = <<s>>
       \/ /\ ScenarioSidebar
          /\ uploaded_files = <<ScenarioPower>>

Next ==
    \/ LoadFile
    \/ BoutStep
    \/ BoutEnd
    \/ BalanceCall
    \/ BalanceStep
    \/ BalanceReturn
    \/ SelectRange
    \/ DepletionStep
    \/ ZoneBin
    \/ StoreFile
    \/ Combine

Spec == Init /\ [][Next]_vars

\* analyze_bouts alone, on longer series
BoutPowers == {0, 10, 15}
InitBouts ==
    /\ NothingAnalysed
    /\ \/ /\ Sidebar(10, 20, 2, -1)
          /\ \E s \in SeqsUpTo(BoutPowers, MaxBoutLen) : uploaded_files = <<s>>
       \/ /\ ScenarioSidebar
          /\ uploaded_files = <<ScenarioPower>>

NextBouts == LoadFile \/ BoutStep \/ BoutEnd

SpecBouts == InitBouts /\ [][NextBouts]_vars

\* An upload of up to MaxFiles files: a few short series (an empty frame among
\* them), a file of 10 s at cp and a file of 90 s far above cp
UploadPowers ==
    {<<>>, <<10>>, <<29>>, <<29, 5>>, <<15, 10>>, <<15, 15, 5>>,
     Repeat(10, 10), Repeat(29, 90)}
InitAgg ==
    /\ NothingAnalysed
    /\ Sidebar(10, 20, 2, -1)
    /\ uploaded_files \in SeqsUpTo(UploadPowers, MaxFiles)

SpecAgg == InitAgg /\ [][Next]_vars

(***************************************************************************)
(* Properties                                                              *)
(***************************************************************************)

\* The balance before sample k of the running or finished scan
BalanceBefore(k) == IF k = 1 THEN w_prime * Unit ELSE w_bal_list[k - 1]

\* C1: for cp > 0 and w_prime > 0, every value appended to the W' balance
\* series lies in [0, w_prime], whatever depletion and recovery steps came
\* before it.
C1_BalanceClamped ==
    (cp > 0 /\ w_prime > 0) =>
        \A k \in 1..Len(w_bal_list) :
            0 <= w_bal_list[k] /\ w_bal_list[k] <= w_prime * Unit

\* A finished scan in which a depletion step was cut off at 0 and a later
\* recovery step raised the balance again
C1_Witness ==
    /\ pc = "balance_returned"
    /\ cp > 0 /\ w_prime > 0
    /\ \E k \in 1..Len(w_bal_list) :
          /\ power_values[k] > cp
          /\ BalanceBefore(k) - (power_values[k] - cp) * Unit < 0
          /\ w_bal_list[k] = 0
          /\ \E j \in (k + 1)..Len(w_bal_list) :
                power_values[j] < cp /\ w_bal_list[j] > w_bal_list[j - 1]

\* The sum of power[from..from+n-1]
RECURSIVE SumPower(_, _, _)
SumPower(power, from, n) ==
    IF n = 0 THEN 0 ELSE power[from] + SumPower(power, from + 1, n - 1)

\* The bout b spans samples of the series, and its magnitude is their average
\* power as a percent of cp
BoutOfSeries(b) ==
    /\ b.start_time >= 0
    /\ b.start_time + b.duration <= Len(power_values)
    /\ b.magnitude.den = b.duration * cp
    /\ b.magnitude.num = 100 * SumPower(power_values, b.start_time + 1, b.duration)

\* C2: every emitted bout, closed by a gap or by the end of the series, has
\* duration >= min_bout_duration and a magnitude (average power over the bout
\* as a percent of cp) >= threshold_factor * 100.
C2_BoutsValid ==
    cp > 0 =>
        \A k \in 1..Len(bouts) :
            /\ BoutOfSeries(bouts[k])
            /\ bouts[k].duration >= min_bout_duration
            /\ bouts[k].magnitude.num >= threshold_factor * bouts[k].magnitude.den

\* A returned list with a bout closed by a gap and a bout closed by the end of
\* the series
C2_Witness ==
    /\ pc = "bouts_returned"
    /\ Len(bouts) = 2
    /\ bouts[1].start_time + bouts[1].duration < bouts[2].start_time
    /\ bouts[2].start_time + bouts[2].duration = Len(power_values)

Scenario == cp = ScenarioCP /\ power_values = ScenarioPower

\* C3 as stated: in the scenario (CP 250, 10 samples at 300 W, then 60 at
\* 200 W) the detector returns exactly one bout, of duration 10 and
\* magnitude 120 percent of CP.
C3_AsStated ==
    (Scenario /\ pc = "bouts_returned") =>
        /\ Len(bouts) = 1
        /\ bouts[1].duration = 10
        /\ bouts[1].magnitude.num = 120 * bouts[1].magnitude.den

\* C3, amended: in the scenario the detector returns exactly one bout, which
\* starts at time 0 and has duration 13 (the 10 samples at 300 W and the 3
\* samples at 200 W within the gap tolerance) and magnitude
\* (3600 / 13 / 250) * 100, about 110.77 percent of CP.
C3_ScenarioBout ==
    (Scenario /\ pc = "bouts_returned") =>
        /\ Len(bouts) = 1
        /\ bouts[1].start_time = 0
        /\ bouts[1].duration = 13
        /\ bouts[1].magnitude.num * 13 * 250 = 360000 * bouts[1].magnitude.den

\* The scenario's scan has returned its bout
C3_Witness == Scenario /\ pc = "bouts_returned" /\ Len(bouts) = 1

\* Sample k of the analysed range is below the depletion threshold
BelowAt(k) == w_bal_series_filtered[k] * 100 < depletion_fraction * w_prime * Unit

\* The first samples of the runs below the threshold among samples 1..n
RunStarts(n) == {k \in 1..n : BelowAt(k) /\ (k = 1 \/ ~BelowAt(k - 1))}

\* C4: a run of N >= 1 consecutive samples below depletion_fraction * w_prime
\* gives one depletion event, not N.  After n samples the count is the number
\* of runs below the threshold among them, the times are the times of the
\* runs' first samples, and the flag tells whether sample n is below.
C4_OneEventPerRun ==
    pc \in {"calculate_depletions_and_zones", "done"} =>
        LET n == i - 1
        IN /\ depletion_count = Cardinality(RunStarts(n))
           /\ Len(depletion_times) = depletion_count
           /\ \A j \in 1..Len(depletion_times) :
                 /\ \E k \in RunStarts(n) :
                       time_series_filtered[k] = depletion_times[j]
                 /\ j > 1 => depletion_times[j - 1] < depletion_times[j]
           /\ below_threshold = (n >= 1 /\ BelowAt(n))

\* A finished scan over three or more samples below the threshold that form
\* one run
C4_Witness ==
    /\ pc = "done"
    /\ depletion_count = 1
    /\ Cardinality({k \in 1..Len(w_bal_series_filtered) : BelowAt(k)}) >= 3

SumZones(c) == c[1] + c[2] + c[3] + c[4] + c[5] + c[6]

\* The analysed range is not empty and its values lie in [0, w_prime]
RangeInBounds ==
    /\ w_prime > 0
    /\ w_bal_series_filtered # <<>>
    /\ \A j \in 1..Len(w_bal_series_filtered) :
          /\ 0 <= w_bal_series_filtered[j]
          /\ w_bal_series_filtered[j] <= w_prime * Unit

\* C5: for a non-empty range with values in [0, w_prime], the zone sample
\* counts sum to the number of samples of the range.
C5_ZonesCoverRange ==
    (pc = "done" /\ RangeInBounds) =>
        SumZones(zone_data.seconds) = Len(w_bal_series_filtered)

\* A binned range with samples in three or more zones, one at w_prime and one
\* at 0
C5_Witness ==
    /\ pc = "done"
    /\ RangeInBounds
    /\ Cardinality({k \in Zones : zone_data.seconds[k] > 0}) >= 3
    /\ \E j \in 1..Len(w_bal_series_filtered) :
          w_bal_series_filtered[j] = w_prime * Unit
    /\ \E j \in 1..Len(w_bal_series_filtered) : w_bal_series_filtered[j] = 0

\* The sample count of zone k and the duration, summed over the first n files
RECURSIVE SecondsOfFiles(_, _)
SecondsOfFiles(n, k) ==
    IF n = 0 THEN 0
    ELSE all_files_data[n].zone_data.seconds[k] + SecondsOfFiles(n - 1, k)

RECURSIVE DurationOfFiles(_)
DurationOfFiles(n) ==
    IF n = 0 THEN 0 ELSE all_files_data[n].duration + DurationOfFiles(n - 1)

\* pct (in hundredths of a percent) is count / total * 100 to 2 decimals
IsPercentOf(pct, count, total) ==
    /\ 2 * (pct * total - count * 10000) <= total
    /\ 2 * (count * 10000 - pct * total) <= total

\* Two files of 10 and 90 seconds with 100% and 0% of their time in zone k
TenAndNinety(k) ==
    /\ Len(all_files_data) = 2
    /\ all_files_data[1].duration = 10
    /\ all_files_data[2].duration = 90
    /\ all_files_data[1].zone_data.percent[k] = 10000
    /\ all_files_data[2].zone_data.percent[k] = 0

\* C6: the combined zone table is weighted by duration: each zone's combined
\* percentage is (the zone's sample counts summed over the files) / (the
\* files' durations summed) * 100, to the 2 decimals the table keeps, and not
\* the mean of the files' percentages: files of 10 s and 90 s with 100% and 0%
\* in a zone give 10% for it.
C6_DurationWeighted ==
    (pc = "combined" /\ combined_zones # NoTable) =>
        LET n == Len(all_files_data)
        IN \A k \in Zones :
             /\ combined_zones.seconds[k] = SecondsOfFiles(n, k)
             /\ IsPercentOf(combined_zones.percent[k], SecondsOfFiles(n, k),
                            DurationOfFiles(n))
             /\ TenAndNinety(k) => combined_zones.percent[k] = 1000

\* The files of 10 s and 90 s have been combined
C6_Witness ==
    /\ pc = "combined"
    /\ combined_zones # NoTable
    /\ \E k \in Zones : TenAndNinety(k) /\ combined_zones.percent[k] = 1000

AllAtCP == \A k \in 1..Len(power_values) : power_values[k] = cp

\* C7: on a series whose samples all have power exactly cp no bout is opened
\* or emitted, and every value of the balance series equals w_prime.
C7_AllAtCP ==
    AllAtCP =>
        /\ bouts = <<>>
        /\ duration = 0
        /\ \A k \in 1..Len(w_bal_list) : w_bal_list[k] = w_prime * Unit

\* Both scans have finished on three or more samples at cp
C7_Witness ==
    /\ pc = "balance_returned"
    /\ AllAtCP
    /\ cp > 0 /\ w_prime > 0
    /\ Len(power_values) >= 3
    /\ Len(w_bal_list) = Len(power_values)

\* C8 as stated: the bout detector returns no bout list when cp <= 0, and the
\* balance tracker returns no balance series when cp <= 0 or w_prime <= 0; the
\* call ends in an error instead.
C8_AsStated ==
    /\ cp <= 0 => pc # "bouts_returned"
    /\ (cp <= 0 \/ w_prime <= 0) => pc # "balance_returned"

\* C9: a recovery step (p < cp) whose tau is not positive, which for
\* delta_p > 0 is the case exactly when A <= 0, leaves the balance unchanged,
\* appends it, raises nothing and lets the scan go on to the next sample.
C9_DegenerateStepSkipped ==
    [][(/\ pc = "calculate_w_prime_balance"
        /\ i <= Len(power_values)
        /\ power_values[i] < cp
        /\ A <= 0)
       => (/\ w_balance' = w_balance
           /\ w_bal_list' = Append(w_bal_list, w_balance)
           /\ i' = i + 1
           /\ pc' = "calculate_w_prime_balance"
           /\ raised' = "none")]_vars

\* A recovery step with A <= 0 has just been passed over with the balance
\* below w_prime, and the scan has samples left
C9_Witness ==
    /\ pc = "calculate_w_prime_balance"
    /\ A <= 0
    /\ i > 1 /\ i <= Len(power_values)
    /\ power_values[i - 1] < cp
    /\ w_balance < w_prime * Unit
    /\ w_bal_list[i - 1] = w_balance
    /\ BalanceBefore(i - 1) = w_balance

\* C10: an empty range gives a zone table with every zone label, each with
\* sample count 0 and percentage 0, a depletion count of 0, and no error.
C10_EmptyRange ==
    (pc = "done" /\ w_bal_series_filtered = <<>>) =>
        /\ DOMAIN zone_data.seconds = 1..Len(labels)
        /\ DOMAIN zone_data.percent = 1..Len(labels)
        /\ \A k \in 1..Len(labels) :
              zone_data.seconds[k] = 0 /\ zone_data.percent[k] = 0
        /\ depletion_count = 0
        /\ depletion_times = <<>>
        /\ raised = "none"

\* The binner has returned for an empty range of a series that is not empty
C10_Witness ==
    /\ pc = "done"
    /\ w_bal_series_filtered = <<>>
    /\ time_series_filtered = <<>>
    /\ Len(w_bal_list) >= 2

\* The edges the zones are stated with; the last zone has no upper edge
edges == <<0, 10, 15, 25, 50, 70>>

\* edges[k] <= val / w_prime * 100, and val / w_prime * 100 < edges[k+1] for
\* every zone but the last
InStatedZone(val, k) ==
    /\ edges[k] * w_prime * Unit <= val * 100
    /\ k < Len(edges) => val * 100 < edges[k + 1] * w_prime * Unit

\* val / w_prime * 100 = e
OnEdge(val, e) == val * 100 = e * w_prime * Unit

\* C11: every value of the balance percent is counted in exactly one
\* half-open zone [edges[k], edges[k+1]) of the edges 0, 10, 15, 25, 50, 70,
\* 100+: a value on an inner edge is counted in the zone that starts at the
\* edge and not in the one that ends at it, 0 percent is counted in the first
\* zone and 100 percent in the last.
C11_HalfOpenZones ==
    (pc = "done" /\ RangeInBounds) =>
        LET series == w_bal_series_filtered
            InZone(k) == {j \in 1..Len(series) : InStatedZone(series[j], k)}
        IN /\ \A j \in 1..Len(series) :
                 Cardinality({k \in Zones : InStatedZone(series[j], k)}) = 1
           /\ \A k \in Zones : zone_data.seconds[k] = Cardinality(InZone(k))
           /\ \A j \in 1..Len(series) : \A k \in 2..Len(edges) :
                 OnEdge(series[j], edges[k]) =>
                    /\ j \in InZone(k)
                    /\ j \notin InZone(k - 1)
                    /\ zone_data.seconds[k] >= 1
           /\ \A j \in 1..Len(series) :
                 /\ OnEdge(series[j], 0) => j \in InZone(1)
                 /\ OnEdge(series[j], 100) => j \in InZone(Len(edges))

\* A binned range with one sample on each inner edge, one at 0 percent and
\* one at 100 percent: the zones hold 1, 1, 1, 1, 1 and 2 samples
C11_Witness ==
    /\ pc = "done"
    /\ RangeInBounds
    /\ \A e \in {0, 10, 15, 25, 50, 70, 100} :
          \E j \in 1..Len(w_bal_series_filtered) :
             OnEdge(w_bal_series_filtered[j], e)
    /\ zone_data.seconds = <<1, 1, 1, 1, 1, 2>>

\* The values a scan of the bout detector starts from
FreshScan ==
    [duration |-> 0, avg_power |-> 0, below_counter |-> 0,
     start_time |-> None, bouts |-> <<>>, raised |-> "none"]

\* The bout list of a scan of power[k..] that starts in s
RECURSIVE BoutsFrom(_, _, _, _)
BoutsFrom(s, power, k, c) ==
    IF s.raised # "none" THEN s.bouts
    ELSE IF k > Len(power) THEN CloseBout(s, c).bouts
    ELSE BoutsFrom(BoutSample(s, k - 1, power[k], c), power, k + 1, c)

\* The series list is the balance series of power from a balance of w_prime:
\* each value comes from the value before it and the sample's power alone
BalancesOf(list, power) ==
    /\ Len(list) = Len(power)
    /\ \A k \in 1..Len(list) :
          list[k] = BalanceSample(IF k = 1 THEN w_prime * Unit ELSE list[k - 1],
                                  power[k], cp, w_prime, A, B)

\* The file being analysed is the second of the upload and has the series of
\* the first, whose results are stored
SecondRun ==
    /\ f = 2
    /\ Len(uploaded_files) = 2
    /\ uploaded_files[1] = uploaded_files[2]
    /\ Len(all_files_data) = 1

\* C12: the bout detector and the balance tracker are pure functions of their
\* arguments.  Every scan starts from fresh values (duration, power sum,
\* below-run counter, start time, bout list, balance), whatever the scan
\* before it left; the returned bout list and balance series are those of a
\* scan of the same series from fresh values; and a second run on the series
\* of the first returns the bout list of the first.
C12_PureFunctions ==
    /\ (pc = "analyze_bouts" /\ i = 1) => BoutState = FreshScan
    /\ (pc = "calculate_w_prime_balance" /\ i = 1) =>
           w_balance = w_prime * Unit /\ w_bal_list = <<>>
    /\ pc \in {"bouts_returned", "calculate_w_prime_balance",
               "balance_returned"} =>
           bouts = BoutsFrom(FreshScan, power_values, 1, cp)
    /\ pc = "balance_returned" =>
           BalancesOf(w_bal_list, power_values)
    /\ (SecondRun /\ pc = "bouts_returned") =>
           bouts = all_files_data[1].bouts_df

\* The second run on the series of the first has returned the bout list and
\* the balance series; the first run had emitted a bout and left an open bout
\* and a balance below w_prime behind
C12_Witness ==
    /\ SecondRun
    /\ pc = "balance_returned"
    /\ all_files_data[1].bouts_df # <<>>
    /\ bouts = all_files_data[1].bouts_df
    /\ duration > 0
    /\ w_balance < w_prime * Unit

\* Sample k of the series is strictly above the threshold power
AboveThreshold(k) == power_values[k] * 100 > cp * threshold_factor

\* The number of consecutive samples at or below the threshold that end with
\* sample n
BelowRun(n) ==
    CHOOSE k \in 0..n :
        /\ \A j \in (n - k + 1)..n : ~AboveThreshold(j)
        /\ k = n \/ AboveThreshold(n - k)

\* The four scan values are those of a detector with no bout open
ScanReset(d, a, b, st) == d = 0 /\ a = 0 /\ b = 0 /\ st = None

\* C13: while a bout is open, the k-th consecutive sample at or below the
\* threshold is added to the bout (duration + 1, power added to the sum) for
\* k <= gap_tolerance; the (gap_tolerance + 1)-th closes the bout, is added to
\* no bout, and the scan values are reset whether or not a bout is emitted.  A
\* sample above the threshold sets the below-run counter to 0.
C13_GapTolerance ==
    [][(pc = "analyze_bouts" /\ i <= Len(power_values) /\ cp > 0) =>
         LET p == power_values[i]
             run == BelowRun(i - 1) + 1
         IN /\ duration > 0 => below_counter = BelowRun(i - 1)
            /\ below_counter <= gap_tolerance
            /\ AboveThreshold(i) =>
                  /\ below_counter' = 0
                  /\ duration' = duration + 1
                  /\ avg_power' = avg_power + p
                  /\ bouts' = bouts
            /\ (~AboveThreshold(i) /\ duration > 0 /\ run <= gap_tolerance) =>
                  /\ duration' = duration + 1
                  /\ avg_power' = avg_power + p
                  /\ below_counter' = run
                  /\ start_time' = start_time
                  /\ bouts' = bouts
            /\ (~AboveThreshold(i) /\ duration > 0 /\ run = gap_tolerance + 1) =>
                  /\ ScanReset(duration', avg_power', below_counter', start_time')
                  /\ \/ bouts' = bouts
                     \/ bouts' = Append(bouts,
                            [start_time |-> start_time, duration |-> duration,
                             magnitude |-> [num |-> avg_power * 100,
                                            den |-> duration * cp]])
            /\ (~AboveThreshold(i) /\ duration = 0) =>
                  /\ ScanReset(duration', avg_power', below_counter', start_time')
                  /\ bouts' = bouts]_vars

\* A bout that took up gap_tolerance samples at the threshold has just been
\* closed and emitted by the sample after them, and the scan values are reset
C13_Witness ==
    /\ pc = "analyze_bouts"
    /\ cp > 0
    /\ i > gap_tolerance + 2
    /\ BelowRun(i - 1) = gap_tolerance + 1
    /\ ScanReset(duration, avg_power, below_counter, start_time)
    /\ bouts # <<>>
    /\ LET b == bouts[Len(bouts)]
       IN /\ b.start_time + b.duration = time_values[i - 1]
          /\ b.magnitude.num =
                100 * SumPower(power_values, b.start_time + 1, b.duration)

\* The step to come closes the open bout: it takes the sample that exceeds the
\* gap tolerance, or it is the close after the last sample
ClosingStep ==
    /\ pc = "analyze_bouts"
    /\ duration > 0
    /\ \/ i > Len(power_values)
       \/ /\ i <= Len(power_values)
          /\ ~AboveThreshold(i)
          /\ below_counter = gap_tolerance

\* The average power of d samples with the sum a is below threshold_factor * cp
AverageBelowThreshold(a, d) == a * 100 < threshold_factor * cp * d

\* C14: the magnitude check is not implied by the duration check.  A bout can
\* reach its close with duration >= min_bout_duration and an average power
\* below threshold_factor * cp, pulled down by the samples of the gap
\* tolerance, and such a bout is not emitted.
C14_MagnitudeChecked ==
    [][(/\ ClosingStep
        /\ cp > 0
        /\ duration >= min_bout_duration
        /\ AverageBelowThreshold(avg_power, duration))
       => bouts' = bouts]_vars

\* The first bout of a series has just been closed by a gap: it was open from
\* the first sample, lasted min_bout_duration samples or more, had an average
\* power below the threshold, and the list is still empty
C14_Witness ==
    /\ pc = "analyze_bouts"
    /\ cp > 0
    /\ i > min_bout_duration + 1
    /\ AboveThreshold(1)
    /\ BelowRun(i - 1) = gap_tolerance + 1
    /\ \A n \in 1..(i - 2) : BelowRun(n) <= gap_tolerance
    /\ AverageBelowThreshold(SumPower(power_values, 1, i - 2), i - 2)
    /\ ScanReset(duration, avg_power, below_counter, start_time)
    /\ bouts = <<>>

\* The emission rule: duration >= min_bout_duration and
\* magnitude >= threshold_factor * 100
Emitted(a, d) ==
    d >= min_bout_duration /\ ~AverageBelowThreshold(a, d)

\* The record of the open bout
OpenBout ==
    [start_time |-> start_time, duration |-> duration,
     magnitude |-> [num |-> avg_power * 100, den |-> duration * cp]]

\* C15: a bout still open when the series ends is closed after the scan under
\* the emission rule of a bout closed by a gap: it is appended, as the last
\* bout of the list, if and only if duration >= min_bout_duration and
\* magnitude >= threshold_factor * 100.
C15_EndOfSeriesClose ==
    [][(ClosingStep /\ cp > 0) =>
         /\ bouts' = IF Emitted(avg_power, duration)
                      THEN Append(bouts, OpenBout) ELSE bouts
         /\ i > Len(power_values) =>
               /\ pc' = "bouts_returned"
               /\ Emitted(avg_power, duration) =>
                     bouts'[Len(bouts')] = OpenBout]_vars

\* The list has been returned with two bouts, the last of them closed by the
\* end of the series inside a gap that had not exceeded the tolerance
C15_Witness ==
    /\ pc = "bouts_returned"
    /\ cp > 0
    /\ Len(bouts) >= 2
    /\ below_counter >= 1
    /\ below_counter <= gap_tolerance
    /\ bouts[Len(bouts)] = OpenBout
    /\ start_time + duration = Len(power_values)

\* The scenario's series with its sidebar values
ScenarioBalance == Scenario /\ w_prime = 20000

\* C16: with CP 250 and W' 20000, on 10 samples at 300 W followed by 60 at
\* 200 W, the balance falls by exactly 50 per sample over the first 10
\* samples, to 19500, and over the following 60 it never decreases and never
\* exceeds 20000.  On any series the balance does not increase on a sample
\* with p > cp and does not decrease on a sample with p <= cp.
C16_ScenarioBalance ==
    /\ \A k \in 1..Len(w_bal_list) :
          /\ power_values[k] > cp => w_bal_list[k] <= BalanceBefore(k)
          /\ power_values[k] <= cp => w_bal_list[k] >= BalanceBefore(k)
    /\ ScenarioBalance =>
          \A k \in 1..Len(w_bal_list) :
             /\ k <= 10 => w_bal_list[k] = (20000 - 50 * k) * Unit
             /\ k > 10 => /\ w_bal_list[k] >= w_bal_list[k - 1]
                          /\ w_bal_list[k] <= 20000 * Unit

\* The scenario's balance series has been returned: 19500 after the 10th
\* sample, and above it but below 20000 after the 70th
C16_Witness ==
    /\ ScenarioBalance
    /\ pc = "balance_returned"
    /\ Len(w_bal_list) = 70
    /\ w_bal_list[10] = 19500 * Unit
    /\ w_bal_list[70] > w_bal_list[10]
    /\ w_bal_list[70] < 20000 * Unit

\* C17: on the 1-second grid the emitted bouts are in strictly increasing
\* order of start time and do not overlap: a bout starts after the sample that
\* closed the bout before it (start_time > the start_time + duration of the
\* bout before), so no sample belongs to two bouts; and every bout starts at
\* the time of a sample whose power is strictly above the threshold.
C17_BoutsOrdered ==
    \A k \in 1..Len(bouts) :
        /\ \E n \in 1..Len(power_values) :
              /\ time_values[n] = bouts[k].start_time
              /\ AboveThreshold(n)
        /\ k > 1 =>
              /\ bouts[k].start_time > bouts[k - 1].start_time
              /\ bouts[k].start_time >
                    bouts[k - 1].start_time + bouts[k - 1].duration
        /\ \A j \in 1..Len(bouts) :
              j # k =>
                 {t \in 0..Len(power_values) :
                     /\ bouts[k].start_time <= t
                     /\ t < bouts[k].start_time + bouts[k].duration
                     /\ bouts[j].start_time <= t
                     /\ t < bouts[j].start_time + bouts[j].duration} = {}

\* Two bouts have been returned, the second opened by the sample right after
\* the one that closed the first
C17_Witness ==
    /\ pc = "bouts_returned"
    /\ Len(bouts) = 2
    /\ bouts[1].duration > min_bout_duration
    /\ bouts[2].start_time = bouts[1].start_time + bouts[1].duration + 1
    /\ ~AboveThreshold(bouts[2].start_time)
    /\ AboveThreshold(bouts[2].start_time + 1)

====
